---- MODULE Spec2Model ----
(***************************************************************************)
(* Model of the brat standoff-annotation index (src/annotations.py) and of *)
(* the loader that fills it (src/data_loader.py).                          *)
(*                                                                         *)
(* A Python str is modelled as a sequence of symbols.  A symbol is one     *)
(* character ("T", "1", "-", ":", " ", "\t", ...) or a whole word          *)
(* ("Organization", "Sony", "534366") that no operation of the code looks  *)
(* inside.  Every str method the code calls is written out below and acts  *)
(* on these sequences the way Python acts on the characters.               *)
(***************************************************************************)
EXTENDS Integers, Sequences, FiniteSets, TLC

TAB == "\t"
SP == " "
\* Optional values: None is the empty sequence, a present value v is <<v>>
None == <<>>
Some(v) == <<v>>

\* ------------------------------------------------------------------ str
Whitespace == {SP, TAB}

Digits == <<"0", "1", "2", "3", "4", "5", "6", "7", "8", "9">>

RECURSIVE Cat(_)
\* ''.join(parts)
Cat(parts) == IF parts = <<>> THEN <<>> ELSE Head(parts) \o Cat(Tail(parts))

RECURSIVE Join(_, _)
\* sep.join(parts)
Join(parts, sep) ==
    IF Len(parts) <= 1 THEN Cat(parts)
    ELSE Head(parts) \o <<sep>> \o Join(Tail(parts), sep)

RECURSIVE SplitOn(_, _)
\* s.split(c) for a one-character separator: always at least one part
SplitOn(s, c) ==
    IF \A i \in 1..Len(s) : s[i] # c THEN <<s>>
    ELSE LET k == CHOOSE i \in 1..Len(s) :
                      s[i] = c /\ \A j \in 1..(i - 1) : s[j] # c
         IN  <<SubSeq(s, 1, k - 1)>> \o SplitOn(SubSeq(s, k + 1, Len(s)), c)

\* s.split(c, maxsplit=1)
SplitMax1(s, c) ==
    IF \A i \in 1..Len(s) : s[i] # c THEN <<s>>
    ELSE LET k == CHOOSE i \in 1..Len(s) :
                      s[i] = c /\ \A j \in 1..(i - 1) : s[j] # c
         IN  <<SubSeq(s, 1, k - 1), SubSeq(s, k + 1, Len(s))>>

RECURSIVE LStrip(_)
LStrip(s) ==
    IF s # <<>> /\ Head(s) \in Whitespace THEN LStrip(Tail(s)) ELSE s

RECURSIVE RStrip(_)
RStrip(s) ==
    IF s # <<>> /\ s[Len(s)] \in Whitespace
    THEN RStrip(SubSeq(s, 1, Len(s) - 1)) ELSE s

\* s.strip()
Strip(s) == RStrip(LStrip(s))

RECURSIVE SplitWs(_)
\* s.split(): split on runs of whitespace, no empty parts
SplitWs(s) ==
    LET t == LStrip(s)
    IN  IF t = <<>> THEN <<>>
        ELSE LET n == IF \E i \in 1..Len(t) : t[i] \in Whitespace
                      THEN (CHOOSE i \in 1..Len(t) :
                               t[i] \in Whitespace
                               /\ \A j \in 1..(i - 1) : t[j] \notin Whitespace) - 1
                      ELSE Len(t)
             IN  <<SubSeq(t, 1, n)>> \o SplitWs(SubSeq(t, n + 1, Len(t)))

RECURSIVE CollapseTabs(_)
\* re.sub(r'[\t]+', '\t', s)
CollapseTabs(s) ==
    IF Len(s) <= 1 THEN s
    ELSE IF s[1] = TAB /\ s[2] = TAB THEN CollapseTabs(Tail(s))
    ELSE <<s[1]>> \o CollapseTabs(Tail(s))

StartsWith(s, p) == Len(s) >= Len(p) /\ SubSeq(s, 1, Len(p)) = p

RECURSIVE RemoveAll(_, _)
\* s.replace(p, ''): every non-overlapping occurrence, left to right
RemoveAll(s, p) ==
    IF s = <<>> THEN <<>>
    ELSE IF StartsWith(s, p) THEN RemoveAll(SubSeq(s, Len(p) + 1, Len(s)), p)
    ELSE <<Head(s)>> \o RemoveAll(Tail(s), p)

\* s.split(c)[0]: the resource id instead of the entry id
FirstPart(s, c) == SplitOn(s, c)[1]

\* s.split(c)[-1]
LastPart(s, c) == LET ps == SplitOn(s, c) IN ps[Len(ps)]

DigitVal(c) == (CHOOSE i \in 1..10 : Digits[i] = c) - 1

\* int(s) succeeds (the inputs used here are runs of digits or of letters)
IsInt(s) == s # <<>> /\ \A i \in 1..Len(s) : \E d \in 1..10 : Digits[d] = s[i]

RECURSIVE ToInt(_)
\* int(s)
ToInt(s) ==
    IF s = <<>> THEN 0
    ELSE 10 * ToInt(SubSeq(s, 1, Len(s) - 1)) + DigitVal(s[Len(s)])

RECURSIVE ToStr(_)
\* str(n) for n >= 0, as in f'{idx}'
ToStr(n) == IF n < 10 THEN <<Digits[n + 1]>>
            ELSE ToStr(n \div 10) \o <<Digits[(n % 10) + 1]>>

\* ------------------------------------------------------------ exceptions
NoExc == "none"
Ok(v) == [exc |-> NoExc, val |-> v]
Raise(e) == [exc |-> e, val |-> <<>>]

\* ------------------------------------------------------- record parsers
\* AnnotationNote.from_string
NoteFromString(ann) ==
    LET parts == SplitOn(ann, TAB)
    IN  IF Len(parts) > 3
        THEN IF Len(parts) # 4 THEN Raise("ValueError")
             ELSE Ok([note_id |-> parts[1], note_type |-> parts[2],
                      note_ref |-> parts[3], text |-> parts[4]])
        ELSE IF Len(parts) # 3 THEN Raise("ValueError")
             ELSE LET type_ref == SplitWs(parts[2])
                  IN  IF Len(type_ref) # 2 THEN Raise("ValueError")
                      ELSE Ok([note_id |-> parts[1], note_type |-> type_ref[1],
                               note_ref |-> type_ref[2], text |-> parts[3]])

\* Normalization.from_string
NormFromString(ann) ==
    LET cleaned == CollapseTabs(ann)
        parts == SplitOn(cleaned, TAB)
    IN  IF Len(parts) = 4
        THEN Ok([norm |-> parts[4], norm_id |-> parts[1],
                 norm_ref |-> parts[3], name |-> None])
        ELSE IF Len(parts) < 2 THEN Raise("IndexError")
             ELSE LET name == IF Len(parts) = 3 THEN Some(parts[3]) ELSE None
                      ref_norm == SplitWs(parts[2])
                  IN  IF Len(ref_norm) # 3 THEN Raise("ValueError")
                      ELSE Ok([norm |-> ref_norm[3], norm_id |-> parts[1],
                               norm_ref |-> ref_norm[2], name |-> name])

RECURSIVE CoordLoop(_, _, _, _, _)
\* the for loop of EntityAnnotation.from_string over coords.split(';'):
\* each pass rebinds start, end and ann_id; nothing is yielded inside it
CoordLoop(coords, idx, ann_id, start, end) ==
    IF coords = <<>> THEN [exc |-> NoExc, ann_id |-> ann_id,
                          start |-> start, end |-> end]
    ELSE LET se == SplitWs(Head(coords))
         IN  IF Len(se) # 2
             THEN [exc |-> "ValueError", ann_id |-> ann_id,
                   start |-> start, end |-> end]
             ELSE CoordLoop(Tail(coords), idx + 1,
                            ann_id \o <<"-">> \o ToStr(idx), se[1], se[2])

\* the single yield that ends EntityAnnotation.from_string
YieldEntity(ann_id, start, end, text, ann_type) ==
    IF ~IsInt(start) \/ ~IsInt(end) THEN Raise("ValueError")
    ELSE Ok(<<[ann_id |-> ann_id, start |-> ToInt(start), end |-> ToInt(end),
               text |-> text, ann_type |-> ann_type,
               note |-> None, norm |-> None]>>)

\* EntityAnnotation.from_string: the sequence of records the generator yields
EntityFromString(ann) ==
    LET parts == SplitOn(ann, TAB)
    IN  IF Len(parts) > 3
        THEN IF Len(parts) # 5 THEN Raise("ValueError")
             ELSE YieldEntity(parts[1], parts[3], parts[4], parts[5], parts[2])
        ELSE IF Len(parts) # 3 THEN Raise("ValueError")
             ELSE LET type_span == SplitMax1(parts[2], SP)
                  IN  IF Len(type_span) # 2 THEN Raise("ValueError")
                      ELSE LET r == CoordLoop(SplitOn(type_span[2], ";"), 0,
                                              parts[1], <<>>, <<>>)
                           IN  IF r.exc # NoExc THEN Raise(r.exc)
                               ELSE YieldEntity(r.ann_id, r.start, r.end,
                                                parts[3], type_span[1])

\* ---------------------------------------------------------------- inputs
\* the resource prefix 'emmet:' of filter_by_donot_list
Emmet == <<"e", "m", "m", "e", "t", ":">>

Line(fields) == Join(fields, TAB)

T1 == <<"T", "1">>
T2 == <<"T", "2">>
T3 == <<"T", "3">>
Wiki == <<"Wikipedia", ":", "534366">>

\* T1<TAB>Organization 0 4<TAB>Sony
EntT1 == Line(<<T1, <<"Organization", SP, "0", SP, "4">>, <<"Sony">>>>)
\* T2<TAB>Person 10 14<TAB>John
EntT2 == Line(<<T2, <<"Person", SP, "1", "0", SP, "1", "4">>, <<"John">>>>)
\* T3<TAB>Organization 0 4;10 14<TAB>Sony (a discontinuous span)
EntT3 == Line(<<T3, <<"Organization", SP, "0", SP, "4", ";",
                      "1", "0", SP, "1", "4">>, <<"Sony">>>>)
\* T1<TAB>Organization<TAB>5<TAB>9<TAB>Sony (the direct layout)
EntT1Direct == Line(<<T1, <<"Organization">>, <<"5">>, <<"9">>, <<"Sony">>>>)
\* #1<TAB>AnnotatorNotes T1<TAB>likely correct
Note1 == Line(<<<<"#", "1">>, <<"AnnotatorNotes", SP>> \o T1,
                <<"likely", SP, "correct">>>>)
\* #2<TAB>AnnotatorNotes<TAB>T1<TAB>suspect
Note2 == Line(<<<<"#", "2">>, <<"AnnotatorNotes">>, T1, <<"suspect">>>>)
\* N1<TAB>Reference T1 Wikipedia:534366<TAB>Sony Corp
Norm1 == Line(<<<<"N", "1">>, <<"Reference", SP>> \o T1 \o <<SP>> \o Wiki,
                <<"Sony", SP, "Corp">>>>)
\* N2<TAB>Reference<TAB>T1<TAB>emmet:5
Norm2 == Line(<<<<"N", "2">>, <<"Reference">>, T1, Emmet \o <<"5">>>>)
\* N3<TAB>Reference T2 7emmet:5<TAB>John
Norm3 == Line(<<<<"N", "3">>,
                <<"Reference", SP>> \o T2 \o <<SP, "7">> \o Emmet \o <<"5">>,
                <<"John">>>>)
\* N4<TAB>Reference T3 emmet:5
Norm4 == Line(<<<<"N", "4">>,
                <<"Reference", SP>> \o T3 \o <<SP>> \o Emmet \o <<"5">>>>)
\* a whitespace-only line
Blank == <<SP>>
\* R1<TAB>Origin Arg1:T1 (a relation: not T, # or N)
Relation == Line(<<<<"R", "1">>, <<"Origin", SP, "Arg1", ":">> \o T1>>)
\* T4<TAB>Organization<TAB>0<TAB>4 (four fields)
BadEntity == Line(<<<<"T", "4">>, <<"Organization">>, <<"0">>, <<"4">>>>)
\* T4<TAB>Organization x 4<TAB>Sony (a non-numeric offset)
BadOffset == Line(<<<<"T", "4">>, <<"Organization", SP, "x", SP, "4">>,
                    <<"Sony">>>>)
\* #3<TAB>AnnotatorNotes<TAB>suspect (no target)
BadNote == Line(<<<<"#", "3">>, <<"AnnotatorNotes">>, <<"suspect">>>>)
\* N5<TAB>Reference T1<TAB>Sony (no resource:entry)
BadNorm == Line(<<<<"N", "5">>, <<"Reference", SP>> \o T1, <<"Sony">>>>)
\* N6 (no tab at all)
NoTabNorm == <<"N", "6">>

EntityLines == {EntT1, EntT2, EntT3, EntT1Direct}
LinkLines == {Note1, Note2, Norm1, Norm2, Norm3, Norm4}
OtherLines == {Blank, Relation, BadEntity, BadOffset, BadNote, BadNorm,
               NoTabNorm}
AllLines == EntityLines \cup LinkLines \cup OtherLines

DocIds == {"D1", "D2"}
Parts == {"1"}

\* Annotations.ann_type
AnnType(ann_str) == Strip(ann_str)[1]

\* The parse of every input line, computed once per line
Parsed ==
    [l \in AllLines |->
        [blank |-> Len(Strip(l)) = 0,
         kind |-> IF Len(Strip(l)) = 0 THEN "" ELSE AnnType(l),
         entity |-> EntityFromString(l),
         note |-> NoteFromString(l),
         norm |-> NormFromString(l)]]

\* ---------------------------------------------------------- Annotations
\* A Python dict is a sequence of [key, ref] entries in insertion order; ref
\* is the position in heap of the EntityAnnotation object the entry refers to.
\* id_map is a function from the keys present to lists of ids.
DictHas(d, k) == \E i \in 1..Len(d) : d[i].key = k

DictGet(d, k) == d[CHOOSE i \in 1..Len(d) : d[i].key = k].ref

\* d[k] = ref
DictSet(d, k, ref) ==
    IF DictHas(d, k)
    THEN [i \in 1..Len(d) |-> IF d[i].key = k THEN [key |-> k, ref |-> ref]
                                              ELSE d[i]]
    ELSE Append(d, [key |-> k, ref |-> ref])

\* defaultdict(list).__getitem__: a missing key is inserted with []
IdMapTouch(m, k) ==
    [x \in DOMAIN m \cup {k} |-> IF x \in DOMAIN m THEN m[x] ELSE <<>>]

\* Annotations(): annotations = {}, id_map = defaultdict(list)
NewAnnotations(annotations) == [annotations |-> annotations, id_map |-> <<>>]

\* Annotations.__len__
Count(ix) == Len(ix.annotations)

\* ann.ann_id, unsplit
WholeId(ann_id) == ann_id

\* ann.ann_id.split('-')[0]
BaseId(ann_id) == SplitOn(ann_id, "-")[1]

\* self.annotations[ann.ann_id] = ann alone: the id is never registered
InsertUnregistered(h, ix, ann) ==
    [heap |-> Append(h, ann),
     ix |-> [ix EXCEPT !.annotations = DictSet(@, ann.ann_id, Len(h) + 1)]]

\* self.id_map[base].append(ann.ann_id); self.annotations[ann.ann_id] = ann
InsertEntity(h, ix, ann) ==
    LET m == IdMapTouch(ix.id_map, BaseId(ann.ann_id))
    IN  [heap |-> Append(h, ann),
         ix |-> [annotations |-> DictSet(ix.annotations, ann.ann_id, Len(h) + 1),
                 id_map |-> [m EXCEPT ![BaseId(ann.ann_id)] =
                                          Append(@, ann.ann_id)]]]

RECURSIVE AddEntitiesOverwrite(_, _, _)
\* the loop without the 'already exists' test: a duplicate id replaces
AddEntitiesOverwrite(h, ix, anns) ==
    IF anns = <<>> THEN [heap |-> h, ix |-> ix, exc |-> NoExc]
    ELSE LET m == IdMapTouch(ix.id_map, SplitOn(Head(anns).ann_id, "-")[1])
             ix2 == [annotations |-> DictSet(ix.annotations, Head(anns).ann_id,
                                             Len(h) + 1),
                     id_map |-> [m EXCEPT ![SplitOn(Head(anns).ann_id, "-")[1]] =
                                              Append(@, Head(anns).ann_id)]]
         IN  AddEntitiesOverwrite(Append(h, Head(anns)), ix2, Tail(anns))

RECURSIVE AddEntities(_, _, _)
\* the for loop over the records EntityAnnotation.from_string yields
AddEntities(h, ix, anns) ==
    IF anns = <<>> THEN [heap |-> h, ix |-> ix, exc |-> NoExc]
    ELSE IF DictHas(ix.annotations, Head(anns).ann_id)
         THEN [heap |-> h, ix |-> ix, exc |-> "ValueError"]
         ELSE LET r == InsertEntity(h, ix, Head(anns))
              IN  AddEntities(r.heap, r.ix, Tail(anns))

RECURSIVE AttachIfUnset(_, _, _, _, _)
\* as Attach, but a record that already has the field keeps it
AttachIfUnset(h, ix, ids, fld, v) ==
    IF ids = <<>> THEN [heap |-> h, ix |-> ix, exc |-> NoExc]
    ELSE IF ~DictHas(ix.annotations, Head(ids))
         THEN [heap |-> h, ix |-> ix, exc |-> "KeyError"]
         ELSE LET a == DictGet(ix.annotations, Head(ids))
                  h2 == IF fld = "note"
                        THEN IF h[a].note = None
                             THEN [h EXCEPT ![a].note = Some(v)] ELSE h
                        ELSE IF h[a].norm = None
                             THEN [h EXCEPT ![a].norm = Some(v)] ELSE h
              IN  AttachIfUnset(h2, ix, Tail(ids), fld, v)

RECURSIVE Attach(_, _, _, _, _)
\* for ann_id in self.id_map[ref]: self.annotations[ann_id].<fld> = v
Attach(h, ix, ids, fld, v) ==
    IF ids = <<>> THEN [heap |-> h, ix |-> ix, exc |-> NoExc]
    ELSE IF ~DictHas(ix.annotations, Head(ids))
         THEN [heap |-> h, ix |-> ix, exc |-> "KeyError"]
         ELSE LET a == DictGet(ix.annotations, Head(ids))
                  h2 == IF fld = "note" THEN [h EXCEPT ![a].note = Some(v)]
                                        ELSE [h EXCEPT ![a].norm = Some(v)]
              IN  Attach(h2, ix, Tail(ids), fld, v)

\* links by scanning the record map for ids under ref, not through id_map
LinkByScan(h, ix, ref, fld, v) ==
    LET ids == [i \in 1..Len(ix.annotations) |-> ix.annotations[i].key]
        hit == {i \in 1..Len(ids) : BaseId(ids[i]) = ref}
        RECURSIVE Pick(_)
        Pick(i) == IF i > Len(ids) THEN <<>>
                   ELSE (IF i \in hit THEN <<ids[i]>> ELSE <<>>) \o Pick(i + 1)
    IN  Attach(h, ix, Pick(1), fld, v)

\* the '#' and 'N' branches of add_annotation, after parsing
Link(h, ix, ref, fld, v) ==
    LET m == IdMapTouch(ix.id_map, ref)
    IN  Attach(h, [ix EXCEPT !.id_map = m], m[ref], fld, v)

\* Annotations.add_annotation: the heap and index after the call and the
\* exception it raised
AddAnnotation(h, ix, ann_str) ==
    IF Parsed[ann_str].blank THEN [heap |-> h, ix |-> ix, exc |-> NoExc]
    ELSE IF Parsed[ann_str].kind = "T"
    THEN LET p == Parsed[ann_str].entity
         IN  IF p.exc # NoExc THEN [heap |-> h, ix |-> ix, exc |-> p.exc]
             ELSE AddEntities(h, ix, p.val)
    ELSE IF Parsed[ann_str].kind = "#"
    THEN LET p == Parsed[ann_str].note
         IN  IF p.exc # NoExc THEN [heap |-> h, ix |-> ix, exc |-> p.exc]
             ELSE Link(h, ix, p.val.note_ref, "note", p.val)
    ELSE IF Parsed[ann_str].kind = "N"
    THEN LET p == Parsed[ann_str].norm
         IN  IF p.exc # NoExc THEN [heap |-> h, ix |-> ix, exc |-> p.exc]
             ELSE Link(h, ix, p.val.norm_ref, "norm", p.val)
    ELSE [heap |-> h, ix |-> ix, exc |-> "ValueError"]

RECURSIVE SelectEntries(_, _)
\* the loop shared by the four filters: a new dict holding, in order, the
\* entries of d whose ref is in keep (the same objects, not copies)
SelectEntries(d, keep) ==
    IF d = <<>> THEN <<>>
    ELSE IF Head(d).ref \in keep
         THEN <<Head(d)>> \o SelectEntries(Tail(d), keep)
         ELSE SelectEntries(Tail(d), keep)

Refs(ix) == {ix.annotations[i].ref : i \in 1..Len(ix.annotations)}

\* Annotations.filter_by_type
FilterByType(h, ix, entity_type) ==
    NewAnnotations(SelectEntries(ix.annotations,
        {a \in Refs(ix) : h[a].ann_type = entity_type}))

\* Annotations.filter_by_types
FilterByTypes(h, ix, entity_types) ==
    NewAnnotations(SelectEntries(ix.annotations,
        {a \in Refs(ix) : h[a].ann_type \in entity_types}))

\* Annotations.filter_by_offset
FilterByOffset(h, ix, start, end) ==
    NewAnnotations(SelectEntries(ix.annotations,
        {a \in Refs(ix) : h[a].start >= start /\ h[a].end <= end}))

\* imui = ann.norm.norm.replace('emmet:', '')
Imui(norm) == RemoveAll(norm.norm, Emmet)

\* Annotations.filter_by_donot_list
FilterByDonotList(h, ix, donot) ==
    NewAnnotations(SelectEntries(ix.annotations,
        {a \in Refs(ix) : IF h[a].norm # None
                          THEN Imui(h[a].norm[1]) \notin donot
                          ELSE TRUE}))

\* one dict of the data list built by to_pandas
Row(ann, doc_id, part) ==
    [doc_id |-> doc_id, part |-> part, ann_id |-> ann.ann_id,
     start |-> ann.start, end |-> ann.end, text |-> ann.text,
     imui |-> LastPart(ann.norm[1].norm, ":")]

RECURSIVE PandasRows(_, _, _, _)
PandasRows(h, d, doc_id, part) ==
    IF d = <<>> THEN Ok(<<>>)
    ELSE IF h[Head(d).ref].norm = None THEN Raise("AttributeError")
    ELSE LET rest == PandasRows(h, Tail(d), doc_id, part)
         IN  IF rest.exc # NoExc THEN rest
             ELSE Ok(<<Row(h[Head(d).ref], doc_id, part)>> \o rest.val)

\* Annotations.to_pandas: the rows of the DataFrame, or the exception
ToPandas(h, ix, doc_id, part) == PandasRows(h, ix.annotations, doc_id, part)

\* ---------------------------------------------------------------- bounds
\* EntityAnnotation objects allocated
MaxHeap == 2
\* rows of a loaded file
MaxRows == 3
\* filter calls made on the indexes
MaxFilters == 1

\* ----------------------------------------------------------------- state
VARIABLES
    heap,        \* the EntityAnnotation objects, by address
    doc_ann,     \* the index being built (Annotations)
    filtered,    \* the index a filter returned, if any (None or Some)
    last,        \* the last call: operation, receiver, argument, exception, result
    file,        \* the rows of the .ann file being loaded
    row,         \* rows of file consumed by _load_ann_file
    log,         \* rows logged by self._logger.warning
    donot_list,  \* load_annotations' donot_list (None or Some(set))
    sem_types,   \* load_annotations' sem_types (None or Some(set))
    pc,          \* position of the loader
    nfilter      \* filter calls made so far

vars == <<heap, doc_ann, filtered, last, file, row, log, donot_list,
          sem_types, pc, nfilter>>

loaderVars == <<file, row, log, donot_list, sem_types, pc>>

Call(op, on, arg, exc, ret) ==
    [op |-> op, on |-> on, arg |-> arg, exc |-> exc, ret |-> ret]

\* The state a load of an empty file without filters returns in: an empty
\* Annotations(), nothing logged
Init ==
    /\ heap = <<>>
    /\ doc_ann = NewAnnotations(<<>>)
    /\ filtered = None
    /\ last = Call("none", "none", <<>>, NoExc, <<>>)
    /\ file = <<>>
    /\ row = 0
    /\ log = <<>>
    /\ donot_list = None
    /\ sem_types = None
    /\ pc = "returned"
    /\ nfilter = 0

\* the receiver of a call: the index being built or the filtered one
Index(on) == IF on = "doc_ann" THEN doc_ann ELSE filtered[1]

Receivers == {"doc_ann"} \cup (IF filtered = None THEN {} ELSE {"filtered"})

\* <on>.add_annotation(l)
AddLine(on, l) ==
    /\ pc = "returned"
    /\ on \in Receivers
    /\ LET r == AddAnnotation(heap, Index(on), l)
       IN  /\ Len(r.heap) <= MaxHeap
           /\ heap' = r.heap
           /\ IF on = "doc_ann"
              THEN doc_ann' = r.ix /\ UNCHANGED filtered
              ELSE filtered' = Some(r.ix) /\ UNCHANGED doc_ann
           /\ last' = Call("add_annotation", on, l, r.exc, <<>>)
    /\ UNCHANGED <<loaderVars, nfilter>>

\* filtered = <on>.filter_by_type(t)
DoFilterByType(on, t) ==
    /\ pc = "returned"
    /\ on \in Receivers
    /\ nfilter < MaxFilters
    /\ nfilter' = nfilter + 1
    /\ filtered' = Some(FilterByType(heap, Index(on), t))
    /\ last' = Call("filter_by_type", on, t, NoExc, <<>>)
    /\ UNCHANGED <<heap, doc_ann, loaderVars>>

\* filtered = <on>.filter_by_types(ts)
DoFilterByTypes(on, ts) ==
    /\ pc = "returned"
    /\ on \in Receivers
    /\ nfilter < MaxFilters
    /\ nfilter' = nfilter + 1
    /\ filtered' = Some(FilterByTypes(heap, Index(on), ts))
    /\ last' = Call("filter_by_types", on, ts, NoExc, <<>>)
    /\ UNCHANGED <<heap, doc_ann, loaderVars>>

\* filtered = <on>.filter_by_offset(s, e)
DoFilterByOffset(on, s, e) ==
    /\ pc = "returned"
    /\ on \in Receivers
    /\ nfilter < MaxFilters
    /\ nfilter' = nfilter + 1
    /\ filtered' = Some(FilterByOffset(heap, Index(on), s, e))
    /\ last' = Call("filter_by_offset", on, <<s, e>>, NoExc, <<>>)
    /\ UNCHANGED <<heap, doc_ann, loaderVars>>

\* filtered = <on>.filter_by_donot_list(dl)
DoFilterByDonotList(on, dl) ==
    /\ pc = "returned"
    /\ on \in Receivers
    /\ nfilter < MaxFilters
    /\ nfilter' = nfilter + 1
    /\ filtered' = Some(FilterByDonotList(heap, Index(on), dl))
    /\ last' = Call("filter_by_donot_list", on, dl, NoExc, <<>>)
    /\ UNCHANGED <<heap, doc_ann, loaderVars>>

\* <on>.to_pandas(doc_id, part)
Export(on, doc_id, part) ==
    /\ pc = "returned"
    /\ on \in Receivers
    /\ LET r == ToPandas(heap, Index(on), doc_id, part)
       IN  last' = Call("to_pandas", on, <<doc_id, part>>, r.exc, r.val)
    /\ UNCHANGED <<heap, doc_ann, filtered, loaderVars, nfilter>>

\* The index under construction: lines of every kind, and exports
Next ==
    \/ \E l \in AllLines : AddLine("doc_ann", l)
    \/ \E d \in DocIds, p \in Parts : Export("doc_ann", d, p)

Spec == Init /\ [][Next]_vars

\* ------------------------------------------ properties of the built index
Keys(ix) == {ix.annotations[i].key : i \in 1..Len(ix.annotations)}

\* the record an index holds under id k
Rec(h, ix, k) == h[DictGet(ix.annotations, k)]

\* id is registered under base b: it is b, or b followed by '-' and more
HasBase(id, b) ==
    \/ id = b
    \/ Len(id) > Len(b) /\ SubSeq(id, 1, Len(b)) = b /\ id[Len(b) + 1] = "-"

\* what each note and normalization line says: the field it sets, the base
\* id it targets and the text (note) or raw reference (normalization)
LinkOf ==
    (Note1 :> [fld |-> "note", target |-> T1, val |-> <<"likely", SP, "correct">>])
    @@ (Note2 :> [fld |-> "note", target |-> T1, val |-> <<"suspect">>])
    @@ (Norm1 :> [fld |-> "norm", target |-> T1, val |-> Wiki])
    @@ (Norm2 :> [fld |-> "norm", target |-> T1, val |-> Emmet \o <<"5">>])
    @@ (Norm3 :> [fld |-> "norm", target |-> T2,
                  val |-> <<"7">> \o Emmet \o <<"5">>])
    @@ (Norm4 :> [fld |-> "norm", target |-> T3, val |-> Emmet \o <<"5">>])

\* the record carries what link line l says
Carries(rec, l) ==
    IF LinkOf[l].fld = "note"
    THEN rec.note # None /\ rec.note[1].text = LinkOf[l].val
         /\ rec.note[1].note_ref = LinkOf[l].target
    ELSE rec.norm # None /\ rec.norm[1].norm = LinkOf[l].val
         /\ rec.norm[1].norm_ref = LinkOf[l].target

\* the fields of a record other than the one link line l sets
Others(rec, l) ==
    IF LinkOf[l].fld = "note" THEN [rec EXCEPT !.note = None]
    ELSE [rec EXCEPT !.norm = None]

AddedOn(on) == last'.op = "add_annotation" /\ last'.on = on

\* C1: a note or normalization line raises nothing; when no record is
\* registered under its target base id it leaves every record as it was;
\* otherwise every record registered under that base id carries it afterwards
\* (whatever note or normalization it carried before), and nothing else
\* changes.  A record an entity line inserts starts with no note and no
\* normalization, whatever lines came before it.
C1_Linking ==
    [][AddedOn("doc_ann") =>
        /\ last'.arg \in LinkLines =>
             LET l == last'.arg
                 hit == {k \in Keys(doc_ann) : HasBase(k, LinkOf[l].target)}
             IN  /\ last'.exc = NoExc
                 /\ doc_ann'.annotations = doc_ann.annotations
                 /\ Len(heap') = Len(heap)
                 /\ hit = {} => heap' = heap
                 /\ \A k \in Keys(doc_ann) :
                       IF k \in hit
                       THEN /\ Carries(Rec(heap', doc_ann', k), l)
                            /\ Others(Rec(heap', doc_ann', k), l)
                                 = Others(Rec(heap, doc_ann, k), l)
                       ELSE Rec(heap', doc_ann', k) = Rec(heap, doc_ann, k)
        /\ last'.arg \in EntityLines =>
             /\ \A a \in 1..Len(heap) : heap'[a] = heap[a]
             /\ \A a \in (Len(heap) + 1)..Len(heap') :
                   heap'[a].note = None /\ heap'[a].norm = None
    ]_vars

\* C1's case: the second note on T1 has just been added and both records
\* registered under T1 carry it, next to the normalization added before
C1_Witness ==
    /\ last.op = "add_annotation" /\ last.arg = Note2 /\ last.exc = NoExc
    /\ Keys(doc_ann) = {T1, T1 \o <<"-", "0">>}
    /\ \A k \in Keys(doc_ann) :
          /\ Carries(Rec(heap, doc_ann, k), Note2)
          /\ Carries(Rec(heap, doc_ann, k), Norm1)

\* each legacy entity line: its id and its 'start end' pairs in order
LegacyOf ==
    (EntT1 :> [id |-> T1, type |-> <<"Organization">>, text |-> <<"Sony">>,
               pairs |-> <<<<0, 4>>>>])
    @@ (EntT2 :> [id |-> T2, type |-> <<"Person">>, text |-> <<"John">>,
                  pairs |-> <<<<10, 14>>>>])
    @@ (EntT3 :> [id |-> T3, type |-> <<"Organization">>, text |-> <<"Sony">>,
                  pairs |-> <<<<0, 4>>, <<10, 14>>>>])

\* C2 (as claimed): adding a legacy entity line with id X and k pairs adds k
\* records X-0 .. X-(k-1), in pair order, each with its pair's start and end
\* and the line's type and text, all registered under base id X.
C2_OneRecordPerPair ==
    [][(AddedOn("doc_ann") /\ last'.arg \in DOMAIN LegacyOf
        /\ last'.exc = NoExc) =>
        LET e == LegacyOf[last'.arg]
            k == Len(e.pairs)
        IN  /\ Count(doc_ann') = Count(doc_ann) + k
            /\ \A i \in 1..k :
                  LET id == e.id \o <<"-">> \o ToStr(i - 1)
                      entry == doc_ann'.annotations[Count(doc_ann) + i]
                  IN  /\ entry.key = id
                      /\ heap'[entry.ref].ann_id = id
                      /\ heap'[entry.ref].start = e.pairs[i][1]
                      /\ heap'[entry.ref].end = e.pairs[i][2]
                      /\ heap'[entry.ref].ann_type = e.type
                      /\ heap'[entry.ref].text = e.text
                      /\ e.id \in DOMAIN doc_ann'.id_map
                      /\ \E j \in 1..Len(doc_ann'.id_map[e.id]) :
                            doc_ann'.id_map[e.id][j] = id
    ]_vars

\* the text after the last ':' of s (all of s when it has none)
AfterLastColon(s) ==
    LET colons == {i \in 1..Len(s) : s[i] = ":"}
        from == IF colons = {} THEN 0
                ELSE CHOOSE i \in colons : \A j \in colons : j <= i
    IN  SubSeq(s, from + 1, Len(s))

\* C7: to_pandas on an index whose records all have a normalization returns
\* one row per record, in order, with the record's id, start, end and text,
\* the doc_id and part passed, and imui the text after the last ':' of the
\* raw reference; when a record has no normalization it raises and returns
\* no rows.
C7_Export ==
    last.op = "to_pandas" =>
        LET ix == Index(last.on)
            recs == [i \in 1..Count(ix) |-> heap[ix.annotations[i].ref]]
        IN  IF \A i \in 1..Count(ix) : recs[i].norm # None
            THEN /\ last.exc = NoExc
                 /\ Len(last.ret) = Count(ix)
                 /\ \A i \in 1..Count(ix) :
                       last.ret[i] =
                           [doc_id |-> last.arg[1], part |-> last.arg[2],
                            ann_id |-> ix.annotations[i].key,
                            start |-> recs[i].start, end |-> recs[i].end,
                            text |-> recs[i].text,
                            imui |-> AfterLastColon(recs[i].norm[1].norm)]
            ELSE last.exc # NoExc /\ last.ret = <<>>

\* C7's case: an export of two normalized records has returned its rows
C7_Witness ==
    /\ last.op = "to_pandas" /\ last.exc = NoExc /\ Len(last.ret) = 2
    /\ last.ret[1].imui = <<"534366">>
    /\ last.arg[1] = "D2"

\* the ids an index lists in its linking map, base by base
Listed(ix) ==
    UNION {{<<b, i>> : i \in 1..Len(ix.id_map[b])} : b \in DOMAIN ix.id_map}

\* position of id k in the record map
Pos(ix, k) == CHOOSE i \in 1..Count(ix) : ix.annotations[i].key = k

C10_Agree ==
    /\ \A bi \in Listed(doc_ann) :
          /\ doc_ann.id_map[bi[1]][bi[2]] \in Keys(doc_ann)
          /\ HasBase(doc_ann.id_map[bi[1]][bi[2]], bi[1])
          /\ \A j \in 1..(bi[2] - 1) :
                Pos(doc_ann, doc_ann.id_map[bi[1]][j])
                    < Pos(doc_ann, doc_ann.id_map[bi[1]][bi[2]])
    /\ \A k \in Keys(doc_ann) :
          Cardinality({bi \in Listed(doc_ann) :
                          doc_ann.id_map[bi[1]][bi[2]] = k}) = 1
    /\ \A b \in DOMAIN doc_ann.id_map : \A j \in 1..Len(b) : b[j] # "-"
    /\ \A i \in 1..Count(doc_ann) :
          heap[doc_ann.annotations[i].ref].ann_id = doc_ann.annotations[i].key
    /\ Count(doc_ann) = Len(heap)

\* id, start, end, text and type of a record
Core(rec) == <<rec.ann_id, rec.start, rec.end, rec.text, rec.ann_type>>

\* C10: in the index being built the linking map and the record map agree:
\* every listed id is a record id, every record id is listed exactly once and
\* under the base id that is its text before the first '-', ids under a base
\* id are in insertion order, and count() is the number of records inserted;
\* a call that is not a successful entity line changes neither count() nor
\* any record's id, start, end, text or type, and no call ever changes those
\* fields of a record already there.
C10_MapsAgree ==
    /\ []C10_Agree
    /\ [][AddedOn("doc_ann") =>
            /\ \A i \in 1..Count(doc_ann) :
                  /\ doc_ann'.annotations[i] = doc_ann.annotations[i]
                  /\ Core(heap'[doc_ann.annotations[i].ref])
                        = Core(heap[doc_ann.annotations[i].ref])
            /\ (last'.arg \notin EntityLines \/ last'.exc # NoExc) =>
                  Count(doc_ann') = Count(doc_ann)
            /\ (last'.arg \in EntityLines /\ last'.exc = NoExc) =>
                  Count(doc_ann') > Count(doc_ann)
       ]_vars

\* C10's case: two records share base id T1, listed in insertion order, and
\* a failing line has just been rejected
C10_Witness ==
    /\ T1 \in DOMAIN doc_ann.id_map
    /\ doc_ann.id_map[T1] = <<T1, T1 \o <<"-", "0">>>>
    /\ last.op = "add_annotation" /\ last.exc = "ValueError"
    /\ last.arg = EntT1

\* ------------------------------------------------------- filtered indexes
FilterLines == {EntT1, EntT2, Note1, Norm2, Norm3}

Types == {<<"Organization">>, <<"Person">>}
Offsets == {<<5, 14>>}
TypeSets == {{<<"Person">>}}
DonotLists == {{<<"5">>}, {<<"7", "5">>}}

FilterNext ==
    \/ \E on \in {"doc_ann", "filtered"}, l \in FilterLines : AddLine(on, l)
    \/ \E on \in {"doc_ann", "filtered"}, t \in Types : DoFilterByType(on, t)
    \/ \E on \in {"doc_ann", "filtered"}, ts \in TypeSets :
           DoFilterByTypes(on, ts)
    \/ \E on \in {"doc_ann", "filtered"}, se \in Offsets :
           DoFilterByOffset(on, se[1], se[2])
    \/ \E on \in {"doc_ann", "filtered"}, dl \in DonotLists :
           DoFilterByDonotList(on, dl)

FilterSpec == Init /\ [][FilterNext]_vars

\* the id of the record each entity line yields
IdOf ==
    (EntT1 :> T1 \o <<"-", "0">>)
    @@ (EntT2 :> T2 \o <<"-", "0">>)
    @@ (EntT3 :> T3 \o <<"-", "0", "-", "1">>)
    @@ (EntT1Direct :> T1)

FilterOps == {"filter_by_type", "filter_by_types", "filter_by_offset",
              "filter_by_donot_list"}

C6_FilteredIsACopy ==
    [][/\ (last'.op \in FilterOps /\ last' # last) =>
             doc_ann' = doc_ann /\ heap' = heap
       /\ (AddedOn("doc_ann") /\ filtered # None) =>
             /\ filtered' = filtered
             /\ \A a \in Refs(filtered[1]) : heap'[a] = heap[a]
      ]_vars

\* s without a leading p
StripPrefix(s, p) ==
    IF StartsWith(s, p) THEN SubSeq(s, Len(p) + 1, Len(s)) ELSE s

\* C9 (as claimed): filter_by_donot_list returns the entries of the index it
\* reads, in order, for exactly the records that have no normalization or
\* whose raw reference, its 'emmet:' prefix stripped, is not excluded.
C9_ExclusionByPrefix ==
    [][(last'.op = "filter_by_donot_list" /\ last' # last) =>
          LET src == Index(last'.on)
              keep == {a \in Refs(src) :
                          \/ heap[a].norm = None
                          \/ StripPrefix(heap[a].norm[1].norm, Emmet)
                                \notin last'.arg}
          IN  filtered'[1].annotations = SelectEntries(src.annotations, keep)
      ]_vars

\* ------------------------------------------------------------ DataLoader
LoadLines == {EntT1, EntT2, Note1, Norm1, Norm3, BadEntity, BadNote, NoTabNorm}

RECURSIVE SeqsUpTo(_, _)
SeqsUpTo(S, n) ==
    IF n = 0 THEN {<<>>}
    ELSE LET shorter == SeqsUpTo(S, n - 1)
         IN  shorter \cup {Append(f, x) : f \in shorter, x \in S}

\* the end-to-end example: T1, T2, a note on T1, a normalization of T1
EndToEndFile == <<EntT1, EntT2, Note1, Norm1>>

Files == SeqsUpTo(LoadLines, MaxRows) \cup {EndToEndFile}

\* load_annotations entered for one .ann file: doc_ann = Annotations()
LoadInit ==
    /\ heap = <<>>
    /\ doc_ann = NewAnnotations(<<>>)
    /\ filtered = None
    /\ last = Call("none", "none", <<>>, NoExc, <<>>)
    /\ file \in Files
    /\ row = 0
    /\ log = <<>>
    /\ donot_list \in {None, Some({<<"7", "5">>})}
    /\ sem_types \in {None, Some({<<"Organization">>})}
    /\ pc = "rows"
    /\ nfilter = 0

\* one pass of the for loop of _load_ann_file: add_annotation in a
\* try/except ValueError
LoadRow ==
    /\ pc = "rows"
    /\ row < Len(file)
    /\ LET r == AddAnnotation(heap, doc_ann, file[row + 1])
       IN  /\ heap' = r.heap
           /\ doc_ann' = r.ix
           /\ row' = row + 1
           /\ last' = Call("add_annotation", "doc_ann", file[row + 1], r.exc, <<>>)
           /\ log' = IF r.exc = "ValueError" THEN Append(log, file[row + 1])
                     ELSE log
           /\ pc' = IF r.exc \in {NoExc, "ValueError"} THEN "rows" ELSE "raised"
    /\ UNCHANGED <<filtered, file, donot_list, sem_types, nfilter>>

\* the loop is exhausted: return fnum, doc_ann
LoadReturn ==
    /\ pc = "rows"
    /\ row = Len(file)
    /\ pc' = "donot"
    /\ UNCHANGED <<heap, doc_ann, filtered, last, file, row, log,
                   donot_list, sem_types, nfilter>>

\* if donot_list is not None: doc_ann = doc_ann.filter_by_donot_list(...)
LoadDonot ==
    /\ pc = "donot"
    /\ doc_ann' = IF donot_list # None
                  THEN FilterByDonotList(heap, doc_ann, donot_list[1])
                  ELSE doc_ann
    /\ pc' = "types"
    /\ UNCHANGED <<heap, filtered, last, file, row, log, donot_list,
                   sem_types, nfilter>>

\* if sem_types is not None: doc_ann = doc_ann.filter_by_types(sem_types);
\* ann[document][fnum] = doc_ann
LoadTypes ==
    /\ pc = "types"
    /\ doc_ann' = IF sem_types # None
                  THEN FilterByTypes(heap, doc_ann, sem_types[1])
                  ELSE doc_ann
    /\ pc' = "returned"
    /\ UNCHANGED <<heap, filtered, last, file, row, log, donot_list,
                   sem_types, nfilter>>

LoadNext ==
    \/ LoadRow
    \/ LoadReturn
    \/ LoadDonot
    \/ LoadTypes
    \/ DoFilterByType("doc_ann", <<"Organization">>)
    \/ \E on \in {"doc_ann", "filtered"} : Export(on, "D1", "1")

LoadSpec == LoadInit /\ [][LoadNext]_vars

\* C3 (as claimed): no line aborts the load of a file: every row is passed
\* to add_annotation, and when the loop ends the index holds the record of
\* every well-formed entity row.
C3_BadLineNeverAborts ==
    /\ pc # "raised"
    /\ pc = "donot" =>
          /\ row = Len(file)
          /\ \A i \in 1..Len(file) :
                file[i] \in EntityLines => IdOf[file[i]] \in Keys(doc_ann)

\* the next row is an entity line whose id the index already holds
DupRow ==
    /\ pc = "rows" /\ row < Len(file) /\ row' = row + 1
    /\ file[row + 1] \in EntityLines
    /\ IdOf[file[row + 1]] \in Keys(doc_ann)

\* C4 (as claimed): a row whose id is already held fails, replaces nothing,
\* and the failure leaves the loader: the load of the file is aborted and
\* the row is not logged.
C4_DuplicateAborts ==
    [][DupRow =>
          /\ last'.exc = "ValueError"
          /\ doc_ann' = doc_ann /\ heap' = heap
          /\ pc' = "raised" /\ log' = log]_vars

\* C4 (amended): a row whose id is already held fails, replaces nothing, and
\* the loader catches the failure like any malformed row: the row is logged
\* and the loop goes on to the next row.
C4_DuplicateLogged ==
    [][DupRow =>
          /\ last'.exc = "ValueError"
          /\ doc_ann' = doc_ann /\ heap' = heap
          /\ pc' = "rows" /\ log' = Append(log, file[row + 1])]_vars

\* C4's case: T1 came twice, the second was logged, and T2 after it was
\* still added
C4_Witness ==
    /\ file = <<EntT1, EntT1, EntT2>>
    /\ pc = "donot"
    /\ log = <<EntT1>>
    /\ Keys(doc_ann) = {IdOf[EntT1], IdOf[EntT2]}
    /\ Len(heap) = 2

EndToEndLoaded ==
    /\ file = EndToEndFile /\ donot_list = None /\ sem_types = None
    /\ pc = "returned"

\* the end-to-end example for the record whose id is id
EndToEnd(id) ==
    EndToEndLoaded =>
        /\ Count(doc_ann) = 2
        /\ id \in Keys(doc_ann)
        /\ Rec(heap, doc_ann, id).note # None
        /\ Rec(heap, doc_ann, id).note[1].text = <<"likely", SP, "correct">>
        /\ Rec(heap, doc_ann, id).norm # None
        /\ Rec(heap, doc_ann, id).norm[1].norm = Wiki
        /\ (last.op = "to_pandas" /\ last.on = "doc_ann") =>
              last.exc # NoExc /\ last.ret = <<>>
        /\ (last.op = "to_pandas" /\ last.on = "filtered") =>
              /\ last.exc = NoExc
              /\ last.ret = <<[doc_id |-> "D1", part |-> "1", ann_id |-> id,
                               start |-> 0, end |-> 4, text |-> <<"Sony">>,
                               imui |-> <<"534366">>]>>

\* C8 (as claimed): after the four lines the index has two records, the one
\* with id T1 has the note and the raw reference; to_pandas fails on it, and
\* succeeds on filter_by_type("Organization") with the one row of ann_id T1.
C8_EndToEndT1 == EndToEnd(T1)

\* C8 (amended): the same, with the id the legacy layout gives the record:
\* T1-0.
C8_EndToEndT1Dash0 == EndToEnd(T1 \o <<"-", "0">>)

\* C8's case: the export of the filtered index has returned its row
C8_Witness ==
    /\ EndToEndLoaded
    /\ filtered # None
    /\ last.op = "to_pandas" /\ last.on = "filtered" /\ last.exc = NoExc
    /\ Len(last.ret) = 1

====
